---- MODULE Spec2Model ----
(***************************************************************************)
(* Recommendation engine of the elegance-fashion backend:                  *)
(* backend/app/recommendation_service.py (KNNRecommendationService) and    *)
(* its HTTP routes in backend/app/routers/recommendations.py.              *)
(*                                                                         *)
(* The catalog (table products) and the interaction ledger (table          *)
(* user_interactions) are the state.  Every service method is an operator  *)
(* over that state; every request is an action that records the answer in  *)
(* `call`, the response on its way to the client.                          *)
(*                                                                         *)
(* Scales: rating in tenths (4.5 -> 45), interaction weights in halves     *)
(* (1.5 -> 3), text as tuples of one-character strings.                    *)
(***************************************************************************)
EXTENDS Integers, Sequences, FiniteSets, TLC

VARIABLES catalog, ledger, now, sklearn, hashOf, call, inflight, onDelete

vars == <<catalog, ledger, now, sklearn, hashOf, call, inflight, onDelete>>

(***************************************************************************)
(* Bounds of the model.                                                    *)
(***************************************************************************)
MaxLimit == 3
MaxEvents == 2
MaxClock == 8

(***************************************************************************)
(* Text.                                                                   *)
(***************************************************************************)
Min(a, b) == IF a < b THEN a ELSE b
Max(a, b) == IF a < b THEN b ELSE a

\* str.lower(), on the capitals the catalog uses
LowerChar(c) ==
    CASE c = "D" -> "d"
      [] c = "S" -> "s"
      [] c = "A" -> "a"
      [] c = "W" -> "w"
      [] OTHER -> c

Lower(s) == [i \in 1..Len(s) |-> LowerChar(s[i])]

\* str.replace(a, b) for one-character a and b
Replace(s, a, b) == [i \in 1..Len(s) |-> IF s[i] = a THEN b ELSE s[i]]

\* `t in s` (Python) and s LIKE '%t%' (SQL contains)
Contains(s, t) ==
    \E i \in 1..(Len(s) - Len(t) + 1) : SubSeq(s, i, i + Len(t) - 1) = t

(***************************************************************************)
(* The products a catalog is drawn from.  B and D tie on rating, reviews   *)
(* and price; D's sub-category text holds two of the complementary         *)
(* sub-category names; E is the best rated product.  F to K are the rest   *)
(* of the shop: kids' products, and products priced far below and far      *)
(* above the others.  L is B under another id, and M has the sub-category  *)
(* of C; they are on sale in LookSpec and KnnSpec only.                    *)
(***************************************************************************)
women == <<"w", "o", "m", "e", "n">>
men == <<"m", "e", "n">>
kids == <<"k", "i", "d", "s">>

Ids == {"A", "B", "C", "D", "E"}

ShopIds == Ids \cup {"F", "G", "H", "I", "J", "K"}

\* a product id no catalog holds
Unknown == "Z"

Product ==
    [A |-> [category |-> women, sub_category |-> <<"D", "r", "e", "s", "s", "e", "s">>,
            price |-> 10, rating |-> 45, reviews |-> 10, colors |-> 2, sizes |-> 3],
     B |-> [category |-> women, sub_category |-> <<"s", "h", "o", "e", "s">>,
            price |-> 8, rating |-> 40, reviews |-> 5, colors |-> 1, sizes |-> 2],
     C |-> [category |-> men, sub_category |-> <<"s", "h", "i", "r", "t">>,
            price |-> 5, rating |-> 30, reviews |-> 1, colors |-> 1, sizes |-> 1],
     D |-> [category |-> women,
            sub_category |-> <<"S", "h", "o", "e", "s", " ", "A", "c", "c", "e", "s", "s", "o", "r", "i", "e", "s">>,
            price |-> 8, rating |-> 40, reviews |-> 5, colors |-> 1, sizes |-> 2],
     E |-> [category |-> men, sub_category |-> <<"S", "h", "i", "r", "t", "s">>,
            price |-> 6, rating |-> 50, reviews |-> 10, colors |-> 2, sizes |-> 1],
     F |-> [category |-> kids, sub_category |-> <<"t", "o", "p", "s">>,
            price |-> 4, rating |-> 35, reviews |-> 1, colors |-> 1, sizes |-> 1],
     G |-> [category |-> kids, sub_category |-> <<"p", "a", "n", "t", "s">>,
            price |-> 4, rating |-> 49, reviews |-> 5, colors |-> 1, sizes |-> 1],
     H |-> [category |-> women, sub_category |-> <<"t", "o", "p", "s">>,
            price |-> 20, rating |-> 48, reviews |-> 10, colors |-> 1, sizes |-> 1],
     I |-> [category |-> men, sub_category |-> <<"p", "a", "n", "t", "s">>,
            price |-> 3, rating |-> 49, reviews |-> 5, colors |-> 1, sizes |-> 1],
     J |-> [category |-> women, sub_category |-> <<"s", "k", "i", "r", "t", "s">>,
            price |-> 9, rating |-> 35, reviews |-> 1, colors |-> 1, sizes |-> 1],
     K |-> [category |-> men, sub_category |-> <<"s", "h", "o", "e", "s">>,
            price |-> 7, rating |-> 42, reviews |-> 5, colors |-> 1, sizes |-> 1],
     L |-> [category |-> women, sub_category |-> <<"s", "h", "o", "e", "s">>,
            price |-> 8, rating |-> 40, reviews |-> 5, colors |-> 1, sizes |-> 2],
     M |-> [category |-> men, sub_category |-> <<"s", "h", "i", "r", "t">>,
            price |-> 5, rating |-> 45, reviews |-> 1, colors |-> 1, sizes |-> 1]]

(***************************************************************************)
(* Rows and their order.                                                   *)
(*                                                                         *)
(* An interaction event is a row of user_interactions: user_id (0 when     *)
(* NULL), session_id ("" when NULL), product_id, interaction_type and      *)
(* created_at.  The ledger is the table in insertion (primary key) order.  *)
(*                                                                         *)
(* SQL leaves the order of rows that tie on the ORDER BY key, and of a     *)
(* query with no ORDER BY, to the engine: every query takes the order the  *)
(* engine produced for that request as a parameter: ord, the product rows  *)
(* in primary key order or in reverse primary key order (RowOrders), and   *)
(* rev, whether tied event rows and tied neighbours come back last row     *)
(* first.                                                                  *)
(***************************************************************************)
RowOrders ==
    {<<"A", "B", "C", "D", "E", "F", "G", "H", "I", "J", "K", "L", "M">>,
     <<"M", "L", "K", "J", "I", "H", "G", "F", "E", "D", "C", "B", "A">>}

Pos(ord, id) == CHOOSE i \in DOMAIN ord : ord[i] = id

\* F(v), with v evaluated once
Bind(v, F(_)) == CHOOSE y \in {F(x) : x \in {v}} : TRUE

\* the elements of S as the list sorted by the strict total order Before
SortedBy(rows, Before(_, _)) ==
    Bind(rows, LAMBDA S :
    Bind([a \in S |-> Cardinality({b \in S : Before(b, a)})], LAMBDA before :
        [i \in 1..Cardinality(S) |-> CHOOSE a \in S : before[a] = i - 1]))

\* SQL LIMIT n and Python s[:n], n >= 0
Take(rows, n) == Bind(rows, LAMBDA s : SubSeq(s, 1, Min(n, Len(s))))

Range(s) == {s[i] : i \in DOMAIN s}

NoDuplicates(s) == \A i, j \in DOMAIN s : s[i] = s[j] => i = j

\* db.query(Product).all(): the catalog in the engine's row order
AllProducts(ord) == SortedBy(catalog, LAMBDA a, b : Pos(ord, a) < Pos(ord, b))

\* ... .order_by(desc(Product.rating)) over the rows S
ByRating(S, ord) ==
    SortedBy(S, LAMBDA a, b :
        \/ Product[a].rating > Product[b].rating
        \/ Product[a].rating = Product[b].rating /\ Pos(ord, a) < Pos(ord, b))

(***************************************************************************)
(* get_trending_products                                                   *)
(***************************************************************************)
TrendingDays == 7

\* the count of a product's events of any age
InteractionCountAllTime(p) ==
    Cardinality({i \in DOMAIN ledger : ledger[i].product_id = p})

\* the subquery: events per product with created_at >= cutoff_date; the outer
\* join and coalesce give 0 to a product with no such event
InteractionCount(p) ==
    Cardinality({i \in DOMAIN ledger :
        ledger[i].product_id = p /\ ledger[i].created_at >= now - TrendingDays})

\* duplicate rows: the join against the events themselves, not the grouped counts
TrendingRowsUngrouped(ord) ==
    LET rows == SortedBy(catalog, LAMBDA a, b : Pos(ord, a) < Pos(ord, b))
        copies(p) == [k \in 1..Max(1, InteractionCount(p)) |-> p]
        F[i \in 0..Len(rows)] == IF i = 0 THEN <<>> ELSE F[i - 1] \o copies(rows[i])
    IN  F[Len(rows)]

\* order_by(desc(coalesce(interaction_count, 0)), desc(rating), desc(reviews))
TrendingRows(ord) ==
    LET count == [p \in catalog |-> InteractionCount(p)]
    IN  SortedBy(catalog, LAMBDA a, b :
            \/ count[a] > count[b]
            \/ /\ count[a] = count[b]
               /\ \/ Product[a].rating > Product[b].rating
                  \/ /\ Product[a].rating = Product[b].rating
                     /\ \/ Product[a].reviews > Product[b].reviews
                        \/ /\ Product[a].reviews = Product[b].reviews
                           /\ Pos(ord, a) < Pos(ord, b))

\* the padding query: order_by(desc(rating), desc(reviews)) over the rows S
ByRatingReviews(S, ord) ==
    SortedBy(S, LAMBDA a, b :
        \/ Product[a].rating > Product[b].rating
        \/ /\ Product[a].rating = Product[b].rating
           /\ \/ Product[a].reviews > Product[b].reviews
              \/ /\ Product[a].reviews = Product[b].reviews
                 /\ Pos(ord, a) < Pos(ord, b))

get_trending_products(limit, ord) ==
    LET trending == Take(TrendingRows(ord), limit)
    IN  IF Len(trending) < limit
        THEN trending \o Take(ByRatingReviews(catalog \ Range(trending), ord),
                              limit - Len(trending))
        ELSE trending

(***************************************************************************)
(* Feature extraction and the nearest-neighbour search (sklearn).          *)
(*                                                                         *)
(* Python salts hash() of a string per process: hashOf is the salt's       *)
(* outcome, fixed at start-up.  Under HashSeeds' second outcome the two    *)
(* categories collide modulo 100 and the sub-categories of B and D collide *)
(* modulo 50, so B and D have the same feature vector.  Products with one  *)
(* sub-category text have one hash under either outcome.                   *)
(***************************************************************************)
HashSeeds == {"spread", "collide"}

\* hash(product.category) % 100
CategoryHash(p) ==
    IF hashOf = "spread"
    THEN (IF Product[p].category = women THEN 3 ELSE 7)
    ELSE 5

\* hash(product.sub_category) % 50
SubCategoryHash(p) ==
    IF hashOf = "spread"
    THEN CASE p = "A" -> 4 [] p \in {"B", "K", "L"} -> 9 [] p \in {"C", "M"} -> 1
           [] p = "D" -> 6 [] OTHER -> 11
    ELSE CASE p = "A" -> 8 [] p \in {"C", "M"} -> 0 [] p = "E" -> 3 [] OTHER -> 2

\* np.log1p(reviews), in tenths
Log1p(r) ==
    CASE r = 0 -> 0
      [] r = 1 -> 7
      [] r = 5 -> 18
      [] r = 10 -> 24
      [] OTHER -> 25

NumFeatures == 7

extract_product_features(p) ==
    <<CategoryHash(p), Product[p].price, Product[p].rating, Log1p(Product[p].reviews),
      Product[p].colors, Product[p].sizes, SubCategoryHash(p)>>

\* the sum of fn over the set T
RECURSIVE SumFrom(_, _)
SumFrom(fn, T) ==
    IF T = {} THEN 0
    ELSE Bind(CHOOSE x \in T : TRUE, LAMBDA x : fn[x] + SumFrom(fn, T \ {x}))

SumOver(S, f(_)) == Bind([x \in S |-> f(x)], LAMBDA fn : SumFrom(fn, S))

\* build_product_feature_matrix, before scaling: one row per product
FeatureMatrix == [p \in catalog |-> extract_product_features(p)]

\* StandardScaler.fit on the matrix: N^2 times the variance of column j (a
\* column of variance 0 is left unscaled, and every difference in it is 0)
ColumnSpread(matrix, j) ==
    LET N == Cardinality(DOMAIN matrix)
        sum == SumOver(DOMAIN matrix, LAMBDA p : matrix[p][j])
    IN  N * SumOver(DOMAIN matrix, LAMBDA p : matrix[p][j] * matrix[p][j]) - sum * sum

\* squared Euclidean distance, in the scaled space, between row p and the mean
\* of the rows Q (Q = {t} for a single query row), times |Q|^2, in thousandths
Distance(matrix, spread, p, Q) ==
    LET N == Cardinality(DOMAIN matrix)
        m == Cardinality(Q)
        d == [j \in 1..NumFeatures |->
                 m * matrix[p][j] - SumOver(Q, LAMBDA q : matrix[q][j])]
    IN  SumOver(1..NumFeatures, LAMBDA j :
            IF spread[j] = 0 THEN 0 ELSE (d[j] * d[j] * N * N * 1000) \div spread[j])

\* NearestNeighbors(n_neighbors).fit(matrix).kneighbors([query])[1][0]: the
\* n_neighbors rows nearest to the query, nearest first; rows at the same
\* distance come in row order or, when rev, in reverse row order
KNeighbors(Q, n_neighbors, ord, rev) ==
    Bind(FeatureMatrix, LAMBDA matrix :
    Bind([j \in 1..NumFeatures |-> ColumnSpread(matrix, j)], LAMBDA spread :
    Bind([p \in catalog |-> Distance(matrix, spread, p, Q)], LAMBDA dist :
        Take(SortedBy(catalog, LAMBDA a, b :
                \/ dist[a] < dist[b]
                \/ /\ dist[a] = dist[b]
                   /\ IF rev THEN Pos(ord, a) > Pos(ord, b) ELSE Pos(ord, a) < Pos(ord, b)),
             n_neighbors))))

\* the list s without the rows that fail Keep
SelectSeqBy(rows, Keep(_)) ==
    Bind(rows, LAMBDA s :
        LET F[i \in 0..Len(s)] ==
                IF i = 0 THEN <<>>
                ELSE IF Keep(s[i]) THEN Append(F[i - 1], s[i]) ELSE F[i - 1]
        IN  F[Len(s)])

\* the loop without its break
AppendAll(rows, n) == rows

\* for x in rows: append x; if len(out) >= n: break
AppendUntil(rows, n) == Take(rows, Max(n, 1))

(***************************************************************************)
(* get_similar_products_knn and its fallback without sklearn               *)
(***************************************************************************)
AbsDiff(a, b) == IF a < b THEN b - a ELSE a - b

\* list.sort(key=...) is stable: rows with equal keys keep the order of rows
StableSortBy(rows, key(_)) ==
    Bind(rows, LAMBDA s :
    Bind([a \in Range(s) |-> key(a)], LAMBDA k :
    Bind([a \in Range(s) |-> Pos(s, a)], LAMBDA at :
        SortedBy(Range(s), LAMBDA a, b : k[a] < k[b] \/ (k[a] = k[b] /\ at[a] < at[b])))))

\* the fallback without its sort: the same-category rows as the catalog has them
SimpleSimilarUnsorted(target_product_id, n, ord) ==
    LET all_products == AllProducts(ord)
    IN  IF target_product_id \notin catalog
        THEN get_trending_products(n, ord)
        ELSE LET similar == SelectSeqBy(all_products, LAMBDA p :
                                /\ p # target_product_id
                                /\ Product[p].category = Product[target_product_id].category)
             IN  IF similar # <<>> THEN Take(similar, n) ELSE get_trending_products(n, ord)

\* the fallback that answers an unknown target with the empty list
SimpleSimilarOrEmpty(target_product_id, n, ord) ==
    LET all_products == AllProducts(ord)
    IN  IF target_product_id \notin catalog
        THEN <<>>
        ELSE LET similar == StableSortBy(
                     SelectSeqBy(all_products, LAMBDA p :
                         /\ p # target_product_id
                         /\ Product[p].category = Product[target_product_id].category),
                     LAMBDA p : AbsDiff(Product[p].price, Product[target_product_id].price))
             IN  IF similar # <<>> THEN Take(similar, n) ELSE get_trending_products(n, ord)

\* the fallback without its last resort: similar[:n] even when it is empty
SimpleSimilarNoFallback(target_product_id, n, ord) ==
    LET all_products == AllProducts(ord)
    IN  IF target_product_id \notin catalog
        THEN get_trending_products(n, ord)
        ELSE Take(StableSortBy(
                     SelectSeqBy(all_products, LAMBDA p :
                         /\ p # target_product_id
                         /\ Product[p].category = Product[target_product_id].category),
                     LAMBDA p : AbsDiff(Product[p].price, Product[target_product_id].price)),
                  n)

_simple_similar_products(target_product_id, n, ord) ==
    LET all_products == AllProducts(ord)
    IN  IF target_product_id \notin catalog
        THEN get_trending_products(n, ord)
        ELSE LET similar == StableSortBy(
                     SelectSeqBy(all_products, LAMBDA p :
                         /\ p # target_product_id
                         /\ Product[p].category = Product[target_product_id].category),
                     LAMBDA p : AbsDiff(Product[p].price, Product[target_product_id].price))
             IN  IF similar # <<>> THEN Take(similar, n) ELSE get_trending_products(n, ord)

get_similar_products_knn(target_product_id, n_recommendations, ord, rev) ==
    IF Cardinality(catalog) < 2 THEN <<>>
    ELSE IF ~sklearn THEN _simple_similar_products(target_product_id, n_recommendations, ord)
    ELSE IF target_product_id \notin catalog THEN <<>>
    ELSE LET n_neighbors == Min(n_recommendations + 1, Cardinality(catalog))
             indices == KNeighbors({target_product_id}, n_neighbors, ord, rev)
         IN  AppendUntil(SelectSeqBy(indices, LAMBDA p : p # target_product_id),
                         n_recommendations)

(***************************************************************************)
(* The actor's events                                                      *)
(***************************************************************************)
PersonalDays == 30
PersonalFetch == 20
ViewFetch == 50

\* query.filter(user_id == user_id) when user_id is truthy, else
\* query.filter(session_id == session_id) when session_id is truthy
ByActor(i, user_id, session_id) ==
    IF user_id # 0 THEN ledger[i].user_id = user_id
    ELSE ledger[i].session_id = session_id

NoActor(user_id, session_id) == user_id = 0 /\ session_id = ""

\* order_by(desc(created_at)) over the event rows S (positions in the ledger);
\* rows of one timestamp come oldest row first or, when rev, newest row first
NewestFirst(S, rev) ==
    SortedBy(S, LAMBDA a, b :
        \/ ledger[a].created_at > ledger[b].created_at
        \/ /\ ledger[a].created_at = ledger[b].created_at
           /\ IF rev THEN a > b ELSE a < b)

\* query.all() with no ORDER BY over the event rows S
Unordered(S, rev) == SortedBy(S, LAMBDA a, b : IF rev THEN a > b ELSE a < b)

\* the product ids of the event rows, first occurrence kept, in row order
DistinctProducts(rows) ==
    Bind(rows, LAMBDA s :
    Bind({i \in DOMAIN s : \A j \in 1..(i - 1) :
              ledger[s[j]].product_id # ledger[s[i]].product_id}, LAMBDA unseen :
    Bind(SortedBy(unseen, LAMBDA i, j : i < j), LAMBDA first :
        [k \in DOMAIN first |-> ledger[s[first[k]]].product_id])))

\* the actor's events with no cutoff date
ActorHistory(user_id, session_id) ==
    {i \in DOMAIN ledger : ByActor(i, user_id, session_id)}

\* filter(created_at >= utcnow() - timedelta(days=30)), then the actor filter
ActorWindow(user_id, session_id) ==
    {i \in DOMAIN ledger :
        /\ ledger[i].created_at >= now - PersonalDays
        /\ ByActor(i, user_id, session_id)}

(***************************************************************************)
(* get_personalized_recommendations                                        *)
(***************************************************************************)
get_personalized_recommendations(user_id, session_id, n_recommendations, ord, rev) ==
    IF NoActor(user_id, session_id) THEN get_trending_products(n_recommendations, ord)
    ELSE
    LET interactions ==
            Take(NewestFirst(ActorWindow(user_id, session_id), rev), PersonalFetch)
        interacted_product_ids == {ledger[i].product_id : i \in Range(interactions)}
        interacted_products == interacted_product_ids \cap catalog
        all_products == AllProducts(ord)
    IN  IF interactions = <<>> THEN get_trending_products(n_recommendations, ord)
        ELSE IF interacted_products = {} THEN get_trending_products(n_recommendations, ord)
        ELSE IF ~sklearn
        THEN LET interacted_categories == {Product[p].category : p \in interacted_products}
                 recommended == StableSortBy(
                     SelectSeqBy(all_products, LAMBDA p :
                         /\ p \notin interacted_product_ids
                         /\ Product[p].category \in interacted_categories),
                     LAMBDA p : 0 - Product[p].rating)
             IN  IF recommended # <<>> THEN Take(recommended, n_recommendations)
                 ELSE get_trending_products(n_recommendations, ord)
        ELSE IF Len(all_products) < 2 THEN <<>>
        ELSE LET n_neighbors == Min(n_recommendations + Cardinality(interacted_product_ids),
                                    Len(all_products))
                 indices == KNeighbors(interacted_products, n_neighbors, ord, rev)
             IN  AppendUntil(SelectSeqBy(indices, LAMBDA p : p \notin interacted_product_ids),
                             n_recommendations)

(***************************************************************************)
(* get_recently_viewed                                                     *)
(***************************************************************************)
\* for interaction in recent_views: append an unseen product_id; then
\* if len(seen_product_ids) >= limit: break
SeenUpTo(rows, limit) == Take(DistinctProducts(rows), Max(limit, 1))

\* the query without its interaction_type == 'view' filter
RecentEventsOfActor(user_id, session_id, rev) ==
    Take(NewestFirst({i \in DOMAIN ledger : ByActor(i, user_id, session_id)}, rev), ViewFetch)

RecentViews(user_id, session_id, rev) ==
    Take(NewestFirst({i \in DOMAIN ledger :
                         /\ ledger[i].interaction_type = "view"
                         /\ ByActor(i, user_id, session_id)}, rev),
         ViewFetch)

\* recently viewed that substitutes the trending list for a missing history
RecentlyViewedOrTrending(user_id, session_id, limit, rev) ==
    LET ord == CHOOSE o \in RowOrders : TRUE
    IN  IF NoActor(user_id, session_id) THEN get_trending_products(limit, ord)
        ELSE LET recent_views == RecentViews(user_id, session_id, rev)
             IN  IF recent_views = <<>> THEN get_trending_products(limit, ord)
                 ELSE SelectSeqBy(SeenUpTo(recent_views, limit), LAMBDA pid : pid \in catalog)

get_recently_viewed(user_id, session_id, limit, rev) ==
    IF NoActor(user_id, session_id) THEN <<>>
    ELSE LET recent_views == RecentViews(user_id, session_id, rev)
         IN  IF recent_views = <<>> THEN <<>>
             ELSE SelectSeqBy(SeenUpTo(recent_views, limit), LAMBDA pid : pid \in catalog)

(***************************************************************************)
(* get_complete_look                                                       *)
(***************************************************************************)
\* COMPLEMENTARY_CATEGORIES: per category, the (key, complementary
\* sub-categories) pairs in the dictionary's order
ComplementaryWomen ==
    <<<<<<"d", "r", "e", "s", "s", "e", "s">>, <<<<"a", "c", "c", "e", "s", "s", "o", "r", "i", "e", "s">>, <<"s", "h", "o", "e", "s">>>>>>,
      <<<<"t", "o", "p", "s">>, <<<<"p", "a", "n", "t", "s">>, <<"s", "k", "i", "r", "t", "s">>, <<"a", "c", "c", "e", "s", "s", "o", "r", "i", "e", "s">>>>>>,
      <<<<"p", "a", "n", "t", "s">>, <<<<"t", "o", "p", "s">>, <<"s", "h", "o", "e", "s">>, <<"a", "c", "c", "e", "s", "s", "o", "r", "i", "e", "s">>>>>>,
      <<<<"s", "k", "i", "r", "t", "s">>, <<<<"t", "o", "p", "s">>, <<"s", "h", "o", "e", "s">>, <<"a", "c", "c", "e", "s", "s", "o", "r", "i", "e", "s">>>>>>,
      <<<<"s", "h", "o", "e", "s">>, <<<<"a", "c", "c", "e", "s", "s", "o", "r", "i", "e", "s">>>>>>,
      <<<<"a", "c", "c", "e", "s", "s", "o", "r", "i", "e", "s">>, <<<<"t", "o", "p", "s">>, <<"d", "r", "e", "s", "s", "e", "s">>>>>>>>

ComplementaryMen ==
    <<<<<<"s", "h", "i", "r", "t", "s">>, <<<<"p", "a", "n", "t", "s">>, <<"s", "h", "o", "e", "s">>, <<"a", "c", "c", "e", "s", "s", "o", "r", "i", "e", "s">>>>>>,
      <<<<"p", "a", "n", "t", "s">>, <<<<"s", "h", "i", "r", "t", "s">>, <<"s", "h", "o", "e", "s">>, <<"a", "c", "c", "e", "s", "s", "o", "r", "i", "e", "s">>>>>>,
      <<<<"t", "-", "s", "h", "i", "r", "t", "s">>, <<<<"p", "a", "n", "t", "s">>, <<"s", "h", "o", "e", "s">>>>>>,
      <<<<"s", "h", "o", "e", "s">>, <<<<"a", "c", "c", "e", "s", "s", "o", "r", "i", "e", "s">>>>>>,
      <<<<"a", "c", "c", "e", "s", "s", "o", "r", "i", "e", "s">>, <<<<"s", "h", "i", "r", "t", "s">>, <<"p", "a", "n", "t", "s">>>>>>>>

ComplementaryKids ==
    <<<<<<"t", "o", "p", "s">>, <<<<"p", "a", "n", "t", "s">>, <<"s", "h", "o", "e", "s">>>>>>,
      <<<<"p", "a", "n", "t", "s">>, <<<<"t", "o", "p", "s">>, <<"s", "h", "o", "e", "s">>>>>>,
      <<<<"d", "r", "e", "s", "s", "e", "s">>, <<<<"s", "h", "o", "e", "s">>, <<"a", "c", "c", "e", "s", "s", "o", "r", "i", "e", "s">>>>>>>>

COMPLEMENTARY_CATEGORIES(category) ==
    CASE category = women -> ComplementaryWomen
      [] category = men -> ComplementaryMen
      [] category = kids -> ComplementaryKids
      [] OTHER -> <<>>

\* for key in cat_map: if key in subcategory: complementary_subs = cat_map[key]; break
ComplementarySubs(category, subcategory) ==
    LET cat_map == COMPLEMENTARY_CATEGORIES(category)
        hits == {k \in DOMAIN cat_map : Contains(subcategory, cat_map[k][1])}
    IN  IF hits = {} THEN <<>>
        ELSE cat_map[CHOOSE k \in hits : \A h \in hits : k <= h][2]

\* per complementary sub-category: up to PerSub rows of the target's category,
\* other than the target, whose lowered sub-category contains it, best rated
\* first; the loop stops once limit rows are collected
PerSub == 2

\* the per-sub-category queries without their Product.id != product_id
ComplementaryWithTarget(product_id, subs, limit, ord) ==
    LET F[i \in 0..Len(subs)] ==
            IF i = 0 THEN <<>>
            ELSE Bind(F[i - 1], LAMBDA found :
                     IF i > 1 /\ Len(found) >= limit THEN found
                     ELSE found \o
                          Take(ByRating({p \in catalog :
                                   /\ Product[p].category = Product[product_id].category
                                   /\ Contains(Lower(Product[p].sub_category), subs[i])}, ord),
                               PerSub))
    IN  F[Len(subs)]

ComplementaryProducts(product_id, subs, limit, ord) ==
    LET F[i \in 0..Len(subs)] ==
            IF i = 0 THEN <<>>
            ELSE Bind(F[i - 1], LAMBDA found :
                     IF i > 1 /\ Len(found) >= limit THEN found
                     ELSE found \o
                          Take(ByRating({p \in catalog :
                                   /\ Product[p].category = Product[product_id].category
                                   /\ p # product_id
                                   /\ Contains(Lower(Product[p].sub_category), subs[i])}, ord),
                               PerSub))
    IN  F[Len(subs)]

\* get_complete_look whose unmapped branch keeps the target's sub-category
CompleteLookAnySubCategory(product_id, limit, ord) ==
    LET target_product == Product[product_id]
        category == Lower(target_product.category)
        subcategory == Replace(Replace(Lower(target_product.sub_category), " ", "-"), "_", "-")
        complementary_subs == ComplementarySubs(category, subcategory)
    IN  IF complementary_subs = <<>>
        THEN Take(ByRating({p \in catalog :
                               /\ Product[p].category = target_product.category
                               /\ p # product_id}, ord),
                  limit)
        ELSE Bind(ComplementaryProducts(product_id, complementary_subs, limit, ord),
                  LAMBDA complementary_products :
                      LET additional ==
                              IF Len(complementary_products) < limit
                              THEN Take(ByRating({p \in catalog :
                                            /\ Product[p].category = target_product.category
                                            /\ p # product_id
                                            /\ p \notin Range(complementary_products)}, ord),
                                        limit - Len(complementary_products))
                              ELSE <<>>
                      IN  Take(complementary_products \o additional, limit))

\* get_complete_look once the target product is found
CompleteLookFor(product_id, limit, ord) ==
    LET target_product == Product[product_id]
        category == Lower(target_product.category)
        subcategory == Replace(Replace(Lower(target_product.sub_category), " ", "-"), "_", "-")
        complementary_subs == ComplementarySubs(category, subcategory)
    IN  IF complementary_subs = <<>>
        THEN Take(ByRating({p \in catalog :
                               /\ Product[p].category = target_product.category
                               /\ p # product_id
                               /\ Product[p].sub_category # target_product.sub_category}, ord),
                  limit)
        ELSE Bind(ComplementaryProducts(product_id, complementary_subs, limit, ord),
                  LAMBDA complementary_products :
                      LET additional ==
                              IF Len(complementary_products) < limit
                              THEN Take(ByRating({p \in catalog :
                                            /\ Product[p].category = target_product.category
                                            /\ p # product_id
                                            /\ p \notin Range(complementary_products)}, ord),
                                        limit - Len(complementary_products))
                              ELSE <<>>
                      IN  Take(complementary_products \o additional, limit))

\* the method that answers an unknown product with the empty list
CompleteLookOrEmpty(product_id, limit, ord) ==
    IF product_id \notin catalog THEN <<>>
    ELSE CompleteLookFor(product_id, limit, ord)

get_complete_look(product_id, limit, ord) ==
    IF product_id \notin catalog THEN get_trending_products(limit, ord)
    ELSE CompleteLookFor(product_id, limit, ord)

(***************************************************************************)
(* get_weighted_personalized_recommendations                               *)
(***************************************************************************)
TopProducts == 5

\* INTERACTION_WEIGHTS.get(interaction_type, 1.0), in halves
INTERACTION_WEIGHTS(interaction_type) ==
    CASE interaction_type = "purchase" -> 10
      [] interaction_type = "add_to_cart" -> 6
      [] interaction_type = "wishlist" -> 4
      [] interaction_type = "click" -> 3
      [] OTHER -> 2

\* the score that counts the event rows and ignores their kinds
ProductCount(rows, pid) ==
    Cardinality({i \in DOMAIN ledger : i \in Range(rows) /\ ledger[i].product_id = pid})

\* product_scores[pid]: the sum of the weights of the event rows for pid
ProductScore(rows, pid) ==
    Bind({i \in DOMAIN ledger : i \in Range(rows) /\ ledger[i].product_id = pid}, LAMBDA of :
        SumOver({ledger[i].interaction_type : i \in of}, LAMBDA t :
            INTERACTION_WEIGHTS(t) * Cardinality({i \in of : ledger[i].interaction_type = t})))

\* sorted(product_scores.keys(), key=score, reverse=True)[:5]: the keys are in
\* order of first occurrence, and the sort keeps that order among equal scores
TopProductIds(rows) ==
    Bind(rows, LAMBDA s :
        Take(StableSortBy(DistinctProducts(s), LAMBDA pid : 0 - ProductScore(s, pid)),
             TopProducts))

MinOf(S) == CHOOSE x \in S : \A y \in S : x <= y
MaxOf(S) == CHOOSE x \in S : \A y \in S : x >= y

\* no price band at all
InAnyPrice(p, top_products) == TRUE

\* Product.price >= min(prices) * 0.7 and Product.price <= max(prices) * 1.3
InPriceBand(p, top_products) ==
    LET prices == {Product[t].price : t \in top_products}
    IN  /\ 10 * Product[p].price >= 7 * MinOf(prices)
        /\ 10 * Product[p].price <= 13 * MaxOf(prices)

\* the two queries over the preferred categories: inside the price band
\* first, then, if these are fewer than asked for, regardless of price
RecommendFromTop(top_products, scored, n_recommendations, ord) ==
    LET preferred_categories == {Product[p].category : p \in top_products}
        recommended ==
            Take(ByRating({p \in catalog :
                              /\ Product[p].category \in preferred_categories
                              /\ p \notin scored
                              /\ InPriceBand(p, top_products)}, ord),
                 n_recommendations)
        additional ==
            IF Len(recommended) < n_recommendations
            THEN Take(ByRating({p \in catalog :
                                   /\ Product[p].category \in preferred_categories
                                   /\ p \notin scored
                                   /\ p \notin Range(recommended)}, ord),
                      n_recommendations - Len(recommended))
            ELSE <<>>
    IN  recommended \o additional

get_weighted_personalized_recommendations(user_id, session_id, n_recommendations, ord, rev) ==
    IF NoActor(user_id, session_id) THEN get_trending_products(n_recommendations, ord)
    ELSE
    LET interactions ==
            Unordered(ActorWindow(user_id, session_id), rev)
        scored == Range(DistinctProducts(interactions))
        top_products == Range(TopProductIds(interactions)) \cap catalog
    IN  IF interactions = <<>> THEN get_trending_products(n_recommendations, ord)
        ELSE IF top_products = {} THEN get_trending_products(n_recommendations, ord)
        ELSE RecommendFromTop(top_products, scored, n_recommendations, ord)

(***************************************************************************)
(* Requests.  `call` is the response on its way to the client; the server  *)
(* takes the next request once it is delivered.                            *)
(***************************************************************************)
Response(op, product_id, user_id, session_id, kind, n, status, result) ==
    [op |-> op, product_id |-> product_id, user_id |-> user_id, session_id |-> session_id,
     kind |-> kind, n |-> n, status |-> status, result |-> result]

\* the response, with the product rows in the order the engine returned them
\* to db.query(Product).all() of the request
WithRows(response, ord) ==
    [f \in DOMAIN response \cup {"rows"} |-> IF f = "rows" THEN ord ELSE response[f]]

\* a request between its steps: where it is (pc), what it asks, its answer
\* (status, 0 until it has one); seen is the number of ledger rows there
\* were when the delete removed the interactions of its product
Request(pc, product_id, interaction_type, user_id, session_id, seen, status) ==
    [pc |-> pc, product_id |-> product_id, interaction_type |-> interaction_type,
     user_id |-> user_id, session_id |-> session_id, seen |-> seen, status |-> status]

NoRequest == Request("none", "", "", 0, "", 0, 0)

\* no request is between two of its steps
Quiet == [track |-> NoRequest, del |-> NoRequest]

Idle == Response("idle", "", 0, "", "", 0, 0, <<>>)

Limits == 0..MaxLimit
UserIds == {0, 1}
SessionIds == {"", "s1"}

Deliver ==
    /\ call # Idle
    /\ call' = Idle
    /\ UNCHANGED <<catalog, ledger, now, sklearn, hashOf, inflight, onDelete>>

(***************************************************************************)
(* The service methods, called on the state as it is.                      *)
(***************************************************************************)
SimilarToProduct ==
    /\ call = Idle
    /\ \E product_id \in Ids \cup {Unknown}, n \in Limits, ord \in RowOrders, rev \in BOOLEAN :
          call' = WithRows(Response("similar_to_product", product_id, 0, "", "", n, 200,
                                    get_similar_products_knn(product_id, n, ord, rev)), ord)
    /\ UNCHANGED <<catalog, ledger, now, sklearn, hashOf, inflight, onDelete>>

\* trending that also prunes the events older than its cutoff
TrendingPrunes ==
    /\ call = Idle
    /\ \E n \in Limits, ord \in RowOrders :
          call' = Response("trending", "", 0, "", "", n, 200, get_trending_products(n, ord))
    /\ ledger' = SelectSeq(ledger, LAMBDA e : e.created_at >= now - TrendingDays)
    /\ UNCHANGED <<catalog, now, sklearn, hashOf, inflight, onDelete>>

Trending ==
    /\ call = Idle
    /\ \E n \in Limits, ord \in RowOrders :
          call' = Response("trending", "", 0, "", "", n, 200, get_trending_products(n, ord))
    /\ UNCHANGED <<catalog, ledger, now, sklearn, hashOf, inflight, onDelete>>

PersonalizedFor ==
    /\ call = Idle
    /\ \E user_id \in UserIds, session_id \in SessionIds, n \in Limits,
          ord \in RowOrders, rev \in BOOLEAN :
          call' = Response("personalized_for", "", user_id, session_id, "", n, 200,
                           get_personalized_recommendations(user_id, session_id, n, ord, rev))
    /\ UNCHANGED <<catalog, ledger, now, sklearn, hashOf, inflight, onDelete>>

WeightedPersonalizedFor ==
    /\ call = Idle
    /\ \E user_id \in UserIds, session_id \in SessionIds, n \in Limits,
          ord \in RowOrders, rev \in BOOLEAN :
          call' = Response("weighted_personalized_for", "", user_id, session_id, "", n, 200,
                           get_weighted_personalized_recommendations(
                               user_id, session_id, n, ord, rev))
    /\ UNCHANGED <<catalog, ledger, now, sklearn, hashOf, inflight, onDelete>>

RecentlyViewedFor ==
    /\ call = Idle
    /\ \E user_id \in UserIds, session_id \in SessionIds, n \in Limits, rev \in BOOLEAN :
          call' = Response("recently_viewed_for", "", user_id, session_id, "", n, 200,
                           get_recently_viewed(user_id, session_id, n, rev))
    /\ UNCHANGED <<catalog, ledger, now, sklearn, hashOf, inflight, onDelete>>

CompleteTheLook ==
    /\ call = Idle
    /\ \E product_id \in Ids \cup {Unknown}, n \in Limits, ord \in RowOrders :
          call' = Response("complete_the_look", product_id, 0, "", "", n, 200,
                           get_complete_look(product_id, n, ord))
    /\ UNCHANGED <<catalog, ledger, now, sklearn, hashOf, inflight, onDelete>>

(***************************************************************************)
(* The routes that check the product before they call the service.         *)
(***************************************************************************)
NotFound == 404

\* GET /for-product/{product_id}
get_recommendations_for_product ==
    /\ call = Idle
    /\ \E product_id \in Ids \cup {Unknown}, n \in Limits, ord \in RowOrders, rev \in BOOLEAN :
          call' = IF product_id \notin catalog
                  THEN Response("GET /for-product", product_id, 0, "", "", n, NotFound, <<>>)
                  ELSE WithRows(Response("GET /for-product", product_id, 0, "", "", n, 200,
                                         get_similar_products_knn(product_id, n, ord, rev)),
                                ord)
    /\ UNCHANGED <<catalog, ledger, now, sklearn, hashOf, inflight, onDelete>>

\* GET /complete-look/{product_id}
get_complete_look_route ==
    /\ call = Idle
    /\ \E product_id \in Ids \cup {Unknown}, n \in Limits, ord \in RowOrders :
          call' = IF product_id \notin catalog
                  THEN Response("GET /complete-look", product_id, 0, "", "", n, NotFound, <<>>)
                  ELSE Response("GET /complete-look", product_id, 0, "", "", n, 200,
                                get_complete_look(product_id, n, ord))
    /\ UNCHANGED <<catalog, ledger, now, sklearn, hashOf, inflight, onDelete>>

(***************************************************************************)
(* POST /track, DELETE /products/{product_id} and the clock.               *)
(***************************************************************************)
valid_types == {"view", "click", "add_to_cart", "wishlist", "purchase"}

BadRequest == 400
ServerError == 500
NoContent == 204

Event(user_id, session_id, product_id, interaction_type, created_at) ==
    [user_id |-> user_id, session_id |-> session_id, product_id |-> product_id,
     interaction_type |-> interaction_type, created_at |-> created_at]

\* the route without its "Validate interaction type" step
TrackUnvalidated(product_id, interaction_type, user_id, session_id, db) ==
    IF product_id \notin catalog
    THEN [status |-> NotFound, ledger |-> ledger]
    ELSE IF db = "commit fails"
    THEN [status |-> ServerError, ledger |-> ledger]
    ELSE [status |-> IF db = "refresh fails" THEN ServerError ELSE 200,
          ledger |-> Append(ledger, Event(user_id, session_id, product_id, interaction_type, now))]

\* the route without its "Verify product exists" step
TrackUnverified(product_id, interaction_type, user_id, session_id, db) ==
    IF interaction_type \notin valid_types
    THEN [status |-> BadRequest, ledger |-> ledger]
    ELSE IF db = "commit fails"
    THEN [status |-> ServerError, ledger |-> ledger]
    ELSE [status |-> IF db = "refresh fails" THEN ServerError ELSE 200,
          ledger |-> Append(ledger, Event(user_id, session_id, product_id, interaction_type, now))]

\* the route handler: validate the type, verify the product, then
\* service.track_interaction (add, commit, refresh); db is what the database
\* does to the commit and to the refresh
track_interaction(product_id, interaction_type, user_id, session_id, db) ==
    IF interaction_type \notin valid_types
    THEN [status |-> BadRequest, ledger |-> ledger]
    ELSE IF product_id \notin catalog
    THEN [status |-> NotFound, ledger |-> ledger]
    ELSE IF db = "commit fails"
    THEN [status |-> ServerError, ledger |-> ledger]
    ELSE [status |-> IF db = "refresh fails" THEN ServerError ELSE 200,
          ledger |-> Append(ledger, Event(user_id, session_id, product_id, interaction_type, now))]

TrackKinds == {"view", "purchase", "share"}
TrackProducts == {"A", "B", "C", Unknown}
DbOutcomes == {"ok", "commit fails", "refresh fails"}

TrackInteraction ==
    /\ call = Idle
    /\ Len(ledger) < MaxEvents
    /\ \E product_id \in TrackProducts, kind \in TrackKinds, user_id \in UserIds,
          db \in DbOutcomes :
          LET out == track_interaction(product_id, kind, user_id, "s1", db)
          IN  /\ ledger' = out.ledger
              /\ call' = Response("POST /track", product_id, user_id, "s1", kind, 0,
                                  out.status, <<>>)
    /\ UNCHANGED <<catalog, now, sklearn, hashOf, inflight, onDelete>>

\* the delete of the interactions without its product filter
DeleteProductAndLedger ==
    /\ call = Idle
    /\ \E product_id \in TrackProducts :
          IF product_id \notin catalog
          THEN /\ call' = Response("DELETE /products", product_id, 0, "", "", 0, NotFound, <<>>)
               /\ UNCHANGED <<catalog, ledger>>
          ELSE /\ ledger' = <<>>
               /\ catalog' = catalog \ {product_id}
               /\ call' = Response("DELETE /products", product_id, 0, "", "", 0, NoContent, <<>>)
    /\ UNCHANGED <<now, sklearn, hashOf, inflight, onDelete>>

\* DELETE /products/{product_id}: the product's events go first, then the product
DeleteProduct ==
    /\ call = Idle
    /\ \E product_id \in TrackProducts :
          IF product_id \notin catalog
          THEN /\ call' = Response("DELETE /products", product_id, 0, "", "", 0, NotFound, <<>>)
               /\ UNCHANGED <<catalog, ledger>>
          ELSE /\ ledger' = SelectSeq(ledger, LAMBDA e : e.product_id # product_id)
               /\ catalog' = catalog \ {product_id}
               /\ call' = Response("DELETE /products", product_id, 0, "", "", 0, NoContent, <<>>)
    /\ UNCHANGED <<now, sklearn, hashOf, inflight, onDelete>>

\* time passes between requests
TickDays == {8}

Tick ==
    /\ call = Idle
    /\ \E d \in TickDays : now + d <= MaxClock /\ now' = now + d
    /\ UNCHANGED <<catalog, ledger, sklearn, hashOf, call, inflight, onDelete>>

\* a recommendation request between the writes: any of the six operations,
\* about product A or for the actor of the tracked events, with the largest
\* n and the rows in primary key order
Recommendation ==
    /\ call = Idle
    /\ \E user_id \in UserIds :
          LET ord == <<"A", "B", "C", "D", "E", "F", "G", "H", "I", "J", "K", "L", "M">>
              n == MaxLimit
          IN  call' \in
                 {Response("similar_to_product", "A", 0, "", "", n, 200,
                           get_similar_products_knn("A", n, ord, FALSE)),
                  Response("trending", "", 0, "", "", n, 200, get_trending_products(n, ord)),
                  Response("personalized_for", "", user_id, "s1", "", n, 200,
                           get_personalized_recommendations(user_id, "s1", n, ord, FALSE)),
                  Response("weighted_personalized_for", "", user_id, "s1", "", n, 200,
                           get_weighted_personalized_recommendations(user_id, "s1", n, ord, FALSE)),
                  Response("recently_viewed_for", "", user_id, "s1", "", n, 200,
                           get_recently_viewed(user_id, "s1", n, FALSE)),
                  Response("complete_the_look", "A", 0, "", "", n, 200,
                           get_complete_look("A", n, ord))}
    /\ UNCHANGED <<catalog, ledger, now, sklearn, hashOf, inflight, onDelete>>

(***************************************************************************)
(* Spec: the life of the ledger, from an empty ledger: events are tracked, *)
(* products deleted and recommendations asked for, one request at a time.  *)
(***************************************************************************)
Init ==
    /\ catalog = {"A", "B", "C"}
    /\ ledger = <<>>
    /\ now = 0
    /\ sklearn \in BOOLEAN
    /\ hashOf = "spread"
    /\ call = Idle
    /\ inflight = Quiet
    /\ onDelete = "CASCADE"

Next ==
    \/ TrackInteraction
    \/ DeleteProduct
    \/ Tick
    \/ Recommendation
    \/ Deliver

Spec == Init /\ [][Next]_vars

(***************************************************************************)
(* SnapshotSpec: the six operations over catalog and ledger snapshots.     *)
(* A snapshot is a catalog drawn from the products, and one of the         *)
(* histories below with the events of the products the catalog lacks       *)
(* removed (as DELETE /products leaves it).                                *)
(***************************************************************************)
Histories ==
    {[now |-> 0, ledger |-> <<>>],
     \* session s1 views D, B, D, A, B, then buys C; user 1 views E
     [now |-> 40, ledger |->
        <<Event(0, "s1", "D", "view", 36), Event(0, "s1", "B", "view", 37),
          Event(1, "", "E", "view", 38), Event(0, "s1", "D", "view", 38),
          Event(0, "s1", "A", "view", 39), Event(0, "s1", "B", "view", 40),
          Event(0, "s1", "C", "purchase", 40)>>],
     \* user 1 buys B once (10 halves) and views C four times (8 halves)
     [now |-> 40, ledger |->
        <<Event(1, "s1", "B", "purchase", 38), Event(1, "s1", "C", "view", 39),
          Event(1, "s1", "C", "view", 39), Event(1, "s1", "C", "view", 40),
          Event(1, "s1", "C", "view", 40)>>],
     \* events 31, 30, 8 and 7 days old
     [now |-> 40, ledger |->
        <<Event(0, "s1", "A", "view", 9), Event(1, "", "C", "view", 10),
          Event(1, "", "B", "click", 32), Event(1, "", "A", "wishlist", 33)>>],
     \* two views of one second; a cart event of another session
     [now |-> 40, ledger |->
        <<Event(0, "s1", "A", "view", 40), Event(0, "s1", "B", "view", 40),
          Event(0, "s2", "D", "add_to_cart", 40)>>],
     \* one view more than get_recently_viewed fetches: E first, then A and B in turn
     [now |-> ViewFetch + 1, ledger |->
        [i \in 1..(ViewFetch + 1) |->
            Event(0, "s1", IF i = 1 THEN "E" ELSE IF i % 2 = 0 THEN "A" ELSE "B", "view", i)]]}

SnapshotInit ==
    /\ catalog \in SUBSET Ids
    /\ \E h \in Histories :
          /\ now = h.now
          /\ ledger = SelectSeq(h.ledger, LAMBDA e : e.product_id \in catalog)
    /\ sklearn \in BOOLEAN
    /\ hashOf \in (IF sklearn THEN HashSeeds ELSE {"spread"})
    /\ call = Idle
    /\ inflight = Quiet
    /\ onDelete = "CASCADE"

SnapshotNext ==
    \/ SimilarToProduct
    \/ Trending
    \/ PersonalizedFor
    \/ WeightedPersonalizedFor
    \/ RecentlyViewedFor
    \/ CompleteTheLook
    \/ get_recommendations_for_product
    \/ get_complete_look_route
    \/ Deliver

SnapshotSpec == SnapshotInit /\ [][SnapshotNext]_vars

(***************************************************************************)
(* WeightedSpec: weighted recommendations over the whole shop, or the shop *)
(* less one product, after each prefix of one history of user 1.           *)
(***************************************************************************)
\* G was bought 35 days ago; then A is bought, session s1 views F, and user 1
\* puts B in the cart, wishes C, clicks D, views E twice, F twice and D once.
\* After 9 events F has the lowest of six scores; after 11, C, E and F tie
\* for the last two of the five places.
WeightedLedger ==
    <<Event(1, "", "G", "purchase", 5), Event(1, "", "A", "purchase", 20),
      Event(0, "s1", "F", "view", 21), Event(1, "", "B", "add_to_cart", 22),
      Event(1, "", "C", "wishlist", 23), Event(1, "", "D", "click", 24),
      Event(1, "", "E", "view", 25), Event(1, "", "E", "view", 26),
      Event(1, "", "F", "view", 27), Event(1, "", "F", "view", 28),
      Event(1, "", "D", "view", 29)>>

WeightedInit ==
    /\ \E missing \in {{}} \cup {{p} : p \in ShopIds} : catalog = ShopIds \ missing
    /\ \E k \in 0..Len(WeightedLedger) :
          ledger = SelectSeq(SubSeq(WeightedLedger, 1, k), LAMBDA e : e.product_id \in catalog)
    /\ now = 40
    /\ sklearn \in BOOLEAN
    /\ hashOf = "spread"
    /\ call = Idle
    /\ inflight = Quiet
    /\ onDelete = "CASCADE"

WeightedNext ==
    \/ WeightedPersonalizedFor
    \/ Deliver

WeightedSpec == WeightedInit /\ [][WeightedNext]_vars

(***************************************************************************)
(* RaceSpec: one POST /track and one DELETE /products/{id}, each in its    *)
(* own database session, step by step.  catalog and ledger are the         *)
(* committed rows.  user_interactions.product_id is a foreign key to       *)
(* products.id in an InnoDB table: the insert of an event is refused when  *)
(* its product is not there, and the delete of a product that has events   *)
(* removes them (ON DELETE CASCADE, the table of                           *)
(* migrate_user_interactions.py) or is refused (no ON DELETE rule, the     *)
(* table of create_all).  A step that waits for a lock is a step taken     *)
(* later.                                                                  *)
(***************************************************************************)
\* ForeignKey("products.id") on user_interactions.product_id
ForeignKeyOff(product_id) == TRUE

ForeignKeyHolds(product_id) == product_id \in catalog

\* POST /track, "Validate interaction type" and "Verify product exists"
TrackVerify ==
    /\ inflight.track.pc = "received"
    /\ LET r == inflight.track
           status == IF r.interaction_type \notin valid_types THEN BadRequest
                     ELSE IF r.product_id \notin catalog THEN NotFound
                     ELSE 0
       IN  inflight' = [inflight EXCEPT !.track.pc = IF status = 0 THEN "verified" ELSE "done",
                                        !.track.status = status]
    /\ UNCHANGED <<catalog, ledger, now, sklearn, hashOf, call, onDelete>>

\* service.track_interaction: add and commit; the insert is flushed by the
\* commit, an IntegrityError becomes the 500 of the route
TrackCommit ==
    /\ inflight.track.pc = "verified"
    /\ LET r == inflight.track
       IN  IF ForeignKeyHolds(r.product_id)
           THEN /\ ledger' = Append(ledger, Event(r.user_id, r.session_id, r.product_id,
                                                  r.interaction_type, now))
                /\ inflight' = [inflight EXCEPT !.track.pc = "done", !.track.status = 200]
           ELSE /\ ledger' = ledger
                /\ inflight' = [inflight EXCEPT !.track.pc = "done",
                                                !.track.status = ServerError]
    /\ UNCHANGED <<catalog, now, sklearn, hashOf, call, onDelete>>

\* DELETE /products/{id}: the lookup of the product
DeleteLookup ==
    /\ inflight.del.pc = "received"
    /\ LET found == inflight.del.product_id \in catalog
       IN  inflight' = [inflight EXCEPT !.del.pc = IF found THEN "found" ELSE "done",
                                        !.del.status = IF found THEN 0 ELSE NotFound]
    /\ UNCHANGED <<catalog, ledger, now, sklearn, hashOf, call, onDelete>>

\* db.query(UserInteraction).filter(product_id == ...).delete(): the rows
\* there are now are deleted in the session of the delete, not yet committed
DeleteInteractions ==
    /\ inflight.del.pc = "found"
    /\ inflight' = [inflight EXCEPT !.del.pc = "interactions deleted",
                                    !.del.seen = Len(ledger)]
    /\ UNCHANGED <<catalog, ledger, now, sklearn, hashOf, call, onDelete>>

\* db.delete(product); db.commit(): with an event of the product committed
\* since the interactions were deleted, the cascade removes it too, or the
\* delete is refused and the session rolled back
DeleteCommit ==
    /\ inflight.del.pc = "interactions deleted"
    /\ LET r == inflight.del
           late == {i \in (r.seen + 1)..Len(ledger) : ledger[i].product_id = r.product_id}
       IN  IF late # {} /\ onDelete = "RESTRICT"
           THEN /\ UNCHANGED <<catalog, ledger>>
                /\ inflight' = [inflight EXCEPT !.del.pc = "done", !.del.status = ServerError]
           ELSE /\ catalog' = catalog \ {r.product_id}
                /\ ledger' = SelectSeq(ledger, LAMBDA e : e.product_id # r.product_id)
                /\ inflight' = [inflight EXCEPT !.del.pc = "done", !.del.status = NoContent]
    /\ UNCHANGED <<now, sklearn, hashOf, call, onDelete>>

\* the ledger the two requests find
RaceLedgers ==
    {<<>>,
     <<Event(0, "s1", "A", "view", 0)>>,
     <<Event(0, "s1", "A", "view", 0), Event(1, "", "B", "purchase", 0)>>}

RaceInit ==
    /\ catalog = {"A", "B", "C"}
    /\ ledger \in RaceLedgers
    /\ now = 1
    /\ sklearn = TRUE
    /\ hashOf = "spread"
    /\ call = Idle
    /\ onDelete \in {"CASCADE", "RESTRICT"}
    /\ \E product_id \in TrackProducts, kind \in TrackKinds, user_id \in UserIds,
          deleted \in TrackProducts :
          inflight = [track |-> Request("received", product_id, kind, user_id, "s1", 0, 0),
                      del |-> Request("received", deleted, "", 0, "", 0, 0)]

RaceNext ==
    \/ TrackVerify
    \/ TrackCommit
    \/ DeleteLookup
    \/ DeleteInteractions
    \/ DeleteCommit

RaceSpec == RaceInit /\ [][RaceNext]_vars

(***************************************************************************)
(* LookSpec: complete_the_look over the shop with M, less up to two        *)
(* products.                                                               *)
(***************************************************************************)
LookIds == ShopIds \cup {"M"}

LookInit ==
    /\ \E missing \in SUBSET LookIds :
          /\ Cardinality(missing) <= 2
          /\ catalog = LookIds \ missing
    /\ ledger = <<>>
    /\ now = 0
    /\ sklearn = FALSE
    /\ hashOf = "spread"
    /\ call = Idle
    /\ inflight = Quiet
    /\ onDelete = "CASCADE"

LookNext ==
    \/ CompleteTheLook
    \/ get_complete_look_route
    \/ Deliver

LookSpec == LookInit /\ [][LookNext]_vars

(***************************************************************************)
(* KnnSpec: similar products with sklearn, over the catalogs drawn from    *)
(* A, B, C, D and L, under either outcome of the hash salt.  When the      *)
(* hashes collide B, D and L have one feature vector.                      *)
(***************************************************************************)
KnnIds == {"A", "B", "C", "D", "L"}

KnnInit ==
    /\ catalog \in SUBSET KnnIds
    /\ ledger = <<>>
    /\ now = 0
    /\ sklearn = TRUE
    /\ hashOf \in HashSeeds
    /\ call = Idle
    /\ inflight = Quiet
    /\ onDelete = "CASCADE"

KnnNext ==
    \/ SimilarToProduct
    \/ get_recommendations_for_product
    \/ Deliver

KnnSpec == KnnInit /\ [][KnnNext]_vars

(***************************************************************************)
(* The claims.  Those about one operation over a snapshot are checked      *)
(* under SnapshotSpec, those about the weighted scores under WeightedSpec, *)
(* those about sequences of requests under Spec, the interleaving of a     *)
(* track with a delete under RaceSpec, complete_the_look over the larger   *)
(* shop under LookSpec and the nearest-neighbour search under KnnSpec.     *)
(***************************************************************************)
SimilarOps == {"similar_to_product", "GET /for-product"}
CompleteOps == {"complete_the_look", "GET /complete-look"}

\* the lists get_trending_products(n) can return on the state as it is
TrendingLists(n) == {get_trending_products(n, ord) : ord \in RowOrders}

\* C1: similar_to_product(P.id, n), for a product P of the catalog, never
\* returns P itself, in the KNN mode and in the mode without sklearn.
C1_NoSelfRecommendation ==
    (call.op \in SimilarOps /\ call.status = 200 /\ call.product_id \in catalog)
        => call.product_id \notin Range(call.result)

\* C2: on a non-empty catalog trending(n) returns exactly min(n, catalog size)
\* products, none of them twice.
C2_TrendingSize ==
    (call.op = "trending" /\ catalog # {})
        => /\ Len(call.result) = Min(call.n, Cardinality(catalog))
           /\ NoDuplicates(call.result)
           /\ Range(call.result) \subseteq catalog

\* C2 witness: trending cut short by n, and trending that returns the whole
\* catalog, over a ledger with events
C2_Witness ==
    /\ call.op = "trending"
    /\ call.n >= 1
    /\ call.n < Cardinality(catalog)
    /\ ledger # <<>>
    /\ Len(call.result) = call.n

\* C3: on one catalog and one ledger, two calls of trending(n) return the same
\* list: the list a call returned is the only list the call can return.
C3_TrendingDeterministic ==
    call.op = "trending" => TrendingLists(call.n) = {call.result}

\* C4: personalized_for with no actor, or with an actor that has no event in
\* the ledger within the last 30 days, returns the list trending(n) returns on
\* the same catalog and ledger.
C4_NoHistory ==
    \/ call.user_id = 0 /\ call.session_id = ""
    \/ \A i \in DOMAIN ledger :
          \/ ledger[i].created_at < now - 30
          \/ IF call.user_id # 0 THEN ledger[i].user_id # call.user_id
             ELSE ledger[i].session_id # call.session_id

C4_PersonalizedFallback ==
    (call.op = "personalized_for" /\ C4_NoHistory)
        => call.result \in TrendingLists(call.n)

\* C4 witness: an actor whose only events are older than 30 days gets the
\* trending list, which is not empty
C4_Witness ==
    /\ call.op = "personalized_for"
    /\ call.session_id = "s1"
    /\ call.user_id = 0
    /\ \E i \in DOMAIN ledger : ledger[i].session_id = "s1"
    /\ C4_NoHistory
    /\ Len(call.result) >= 2

\* C5: complete_the_look(P.id, n), for a product P of the catalog, never
\* returns P itself, whichever branch produced the list.
C5_CompleteLookExcludesTarget ==
    (call.op \in CompleteOps /\ call.status = 200 /\ call.product_id \in catalog)
        => call.product_id \notin Range(call.result)

\* C5 witness: B (women, shoes) is mapped to accessories; D is found there and
\* A is added from the same category
C5_Witness ==
    /\ call.op = "complete_the_look"
    /\ call.product_id = "B"
    /\ "B" \in catalog
    /\ call.result = <<"D", "A">>

\* C6: recently_viewed(actor, n) returns the distinct products of the actor's
\* 50 most recent 'view' events, whatever their age, each product once, in
\* the order of their latest views, newest first, leaving out none that was
\* viewed later than one it returns, and all of them when there are n or
\* fewer (views P3, P1, P3, P2, P1 and n = 3 give [P1, P2, P3]).
C6_Views == {i \in DOMAIN ledger :
                /\ ledger[i].interaction_type = "view"
                /\ IF call.user_id # 0 THEN ledger[i].user_id = call.user_id
                   ELSE ledger[i].session_id = call.session_id}

C6_Latest == {i \in C6_Views :
                Cardinality({j \in C6_Views : ledger[j].created_at > ledger[i].created_at}) < 50}

C6_LastView(p) == MaxOf({ledger[i].created_at : i \in {j \in C6_Latest : ledger[j].product_id = p}})

C6_Viewed == {ledger[i].product_id : i \in C6_Latest}

C6_RecentlyViewed ==
    (call.op = "recently_viewed_for" /\ (call.user_id # 0 \/ call.session_id # ""))
        => /\ Range(call.result) \subseteq C6_Viewed
           /\ NoDuplicates(call.result)
           /\ Len(call.result) >= Min(call.n, Cardinality(C6_Viewed))
           /\ \A i, j \in DOMAIN call.result :
                 i < j => C6_LastView(call.result[i]) >= C6_LastView(call.result[j])
           /\ \A p \in Range(call.result), q \in C6_Viewed \ Range(call.result) :
                 C6_LastView(p) >= C6_LastView(q)

\* C6 witness: the session viewed D, B, D, A, B in this order (and bought C);
\* with n = 3 it gets B, A, D
C6_Witness ==
    /\ call.op = "recently_viewed_for"
    /\ call.user_id = 0
    /\ call.session_id = "s1"
    /\ call.n = 3
    /\ Len(ledger) = 7
    /\ call.result = <<"B", "A", "D">>

\* C7: when the actor's events of the last 30 days score product X above
\* product Y of another category, and the catalog holds a product of X's
\* category the actor has no event for, weighted_personalized_for (n >= 1)
\* returns at least one product of X's category.
C7_Events == {i \in DOMAIN ledger :
                 /\ ledger[i].created_at >= now - 30
                 /\ IF call.user_id # 0 THEN ledger[i].user_id = call.user_id
                    ELSE ledger[i].session_id = call.session_id}

C7_Score(p) ==
    SumOver(valid_types, LAMBDA t :
        INTERACTION_WEIGHTS(t) *
            Cardinality({i \in C7_Events : ledger[i].product_id = p /\ ledger[i].interaction_type = t}))

C7_WeightedPrefersHigherScore ==
    (/\ call.op = "weighted_personalized_for"
     /\ call.user_id # 0 \/ call.session_id # ""
     /\ call.n >= 1)
        => \A X, Y \in {ledger[i].product_id : i \in C7_Events} :
              (/\ C7_Score(X) > C7_Score(Y)
               /\ Product[X].category # Product[Y].category
               /\ \E p \in catalog :
                     /\ Product[p].category = Product[X].category
                     /\ p \notin {ledger[i].product_id : i \in C7_Events})
                  => \E r \in Range(call.result) : Product[r].category = Product[X].category

\* C8: POST /track for a product_id that is not in the catalog leaves the
\* ledger as it was, and answers 404 (a request whose interaction type is
\* not valid either is refused with 400 before the product is looked up).
C8_TrackUnknownProduct ==
    [][(call.op = "idle" /\ call'.op = "POST /track" /\ call'.product_id \notin catalog)
          => /\ ledger' = ledger
             /\ call'.status \in {NotFound, BadRequest}
             /\ call'.kind \in valid_types => call'.status = NotFound]_vars

\* C8 witness: a product that was tracked and then deleted is tracked again,
\* and refused, while the ledger holds an event of another product
C8_Witness ==
    /\ call.op = "POST /track"
    /\ call.product_id = "A"
    /\ "A" \notin catalog
    /\ call.status = NotFound
    /\ ledger # <<>>

QueryOps ==
    {"similar_to_product", "trending", "personalized_for", "weighted_personalized_for",
     "recently_viewed_for", "complete_the_look", "GET /for-product", "GET /complete-look"}

C12_QueriesReadOnly ==
    [][(call.op = "idle" /\ call'.op \in QueryOps)
          => (catalog' = catalog /\ ledger' = ledger)]_vars

\* C12 witness: trending answered over a ledger that holds an event older
\* than 7 days, which is still there
C12_Witness ==
    /\ call.op = "trending"
    /\ call.result # <<>>
    /\ \E i \in DOMAIN ledger : ledger[i].created_at < now - 7

\* C11: the ledger is append-only. A step of the system leaves every event
\* where and as it was and adds at most one event at the end, or it is a
\* successful delete_product and removes exactly the events of the deleted
\* product, leaving the others as and in the order they were; a successful
\* track_interaction adds exactly one event, the one of the request, stamped
\* with the time of the call.
C11_Appended ==
    /\ Len(ledger') \in {Len(ledger), Len(ledger) + 1}
    /\ SubSeq(ledger', 1, Len(ledger)) = ledger

C11_Cascaded ==
    /\ call'.op = "DELETE /products"
    /\ call'.status = NoContent
    /\ call'.product_id \in catalog
    /\ call'.product_id \notin catalog'
    /\ ledger' = SelectSeq(ledger, LAMBDA e : e.product_id # call'.product_id)

C11_Tracked ==
    (call.op = "idle" /\ call'.op = "POST /track" /\ call'.status = 200)
       => ledger' = Append(ledger, Event(call'.user_id, call'.session_id, call'.product_id,
                                         call'.kind, now))

C11_AppendOnly == [][(C11_Appended \/ C11_Cascaded) /\ C11_Tracked]_vars

\* two events of different products, a delete of the first product has just
\* removed the first and kept the second, after a recommendation call or not
C11_Witness ==
    /\ call.op = "DELETE /products"
    /\ call.status = NoContent
    /\ Len(ledger) = 1
    /\ ledger[1].product_id # call.product_id
    /\ ledger[1].created_at < now

\* C13: when POST /track reports a failure, the ledger holds no event of
\* that call: it is the ledger of before the call.
C13_FailedTrackLeavesNoEvent ==
    [][(call.op = "idle" /\ call'.op = "POST /track" /\ call'.status # 200)
          => ledger' = ledger]_vars

\* C14: trending(n) lists the products by the number of their events of the
\* last 7 days, most first (0 for a product with none), then by rating,
\* highest first, then by review count, highest first, and returns the first
\* of that order; an event older than 7 days does not count.
C14_Count(p) ==
    Cardinality({i \in DOMAIN ledger :
        ledger[i].product_id = p /\ now - ledger[i].created_at <= 7})

C14_NotAfter(p, q) ==
    \/ C14_Count(p) > C14_Count(q)
    \/ /\ C14_Count(p) = C14_Count(q)
       /\ \/ Product[p].rating > Product[q].rating
          \/ /\ Product[p].rating = Product[q].rating
             /\ Product[p].reviews >= Product[q].reviews

C14_TrendingOrder ==
    call.op = "trending" =>
        /\ \A i, j \in DOMAIN call.result : i < j => C14_NotAfter(call.result[i], call.result[j])
        /\ \A p \in Range(call.result), q \in catalog \ Range(call.result) : C14_NotAfter(p, q)

\* C14 witness: a product whose only events are older than 7 days comes
\* after a product that has none at all but a higher rating
C14_Witness ==
    /\ call.op = "trending"
    /\ \E i, j \in DOMAIN call.result :
          /\ i < j
          /\ C14_Count(call.result[i]) = 0
          /\ C14_Count(call.result[j]) = 0
          /\ \A k \in DOMAIN ledger : ledger[k].product_id # call.result[i]
          /\ \E k \in DOMAIN ledger : ledger[k].product_id = call.result[j]
          /\ Product[call.result[i]].rating > Product[call.result[j]].rating

\* C15: for an actor with at least one event among its 20 most recent events
\* of the last 30 days, personalized_for returns no product of those events.
C15_Window == {i \in DOMAIN ledger :
                  /\ now - ledger[i].created_at <= 30
                  /\ IF call.user_id # 0 THEN ledger[i].user_id = call.user_id
                     ELSE ledger[i].session_id = call.session_id}

C15_Fetched == {i \in C15_Window :
                   Cardinality({j \in C15_Window : ledger[j].created_at > ledger[i].created_at}) < 20}

C15_PersonalizedExcludesHistory ==
    (/\ call.op = "personalized_for"
     /\ call.user_id # 0 \/ call.session_id # ""
     /\ C15_Fetched # {})
        => Range(call.result) \cap {ledger[i].product_id : i \in C15_Fetched} = {}

\* C16: without sklearn, similar_to_product(P.id, n) with n >= 1, P in the
\* catalog and at least 2 products in the catalog returns a list that is not
\* empty; when no other product has P's category it is a list of trending(n).
C16_Alone ==
    \A p \in catalog \ {call.product_id} :
        Product[p].category # Product[call.product_id].category

C16_DegradedSimilarNotEmpty ==
    (/\ call.op \in SimilarOps
     /\ call.status = 200
     /\ ~sklearn
     /\ call.n >= 1
     /\ Cardinality(catalog) >= 2
     /\ call.product_id \in catalog)
        => /\ call.result # <<>>
           /\ C16_Alone => call.result \in TrendingLists(call.n)

\* C16 witness: C is the only men's product of the catalog {A, C}
C16_Witness ==
    /\ call.op = "similar_to_product"
    /\ ~sklearn
    /\ catalog = {"A", "C"}
    /\ call.product_id = "C"
    /\ call.n = 2
    /\ Len(call.result) = 2

\* C17: recently_viewed with no actor, or with an actor that has no 'view'
\* event in the ledger, returns the empty list (not the trending list), also
\* when the actor has events of other kinds.
C17_NoViews ==
    \/ call.user_id = 0 /\ call.session_id = ""
    \/ \A i \in DOMAIN ledger :
          \/ ledger[i].interaction_type # "view"
          \/ IF call.user_id # 0 THEN ledger[i].user_id # call.user_id
             ELSE ledger[i].session_id # call.session_id

C17_RecentlyViewedEmpty ==
    (call.op = "recently_viewed_for" /\ C17_NoViews) => call.result = <<>>

\* C17 witness: user 1 has events, none of them a view, and the trending list
\* for the same n would not be empty
C17_Witness ==
    /\ call.op = "recently_viewed_for"
    /\ call.user_id = 1
    /\ \E i \in DOMAIN ledger : ledger[i].user_id = 1
    /\ C17_NoViews
    /\ call.n >= 1
    /\ catalog # {}
    /\ call.result = <<>>

\* C18: however the steps of one track_interaction (verify the product,
\* then insert and commit) and one delete_product (delete the product's
\* events, then delete the product) interleave, once both have answered
\* every event of the ledger references a product of the catalog.
C18_NoOrphanEvent ==
    (inflight.track.pc = "done" /\ inflight.del.pc = "done")
       => \A i \in DOMAIN ledger : ledger[i].product_id \in catalog

\* C18 witness: the track verified its product before the delete of the same
\* product committed and inserted after it: the insert was refused
C18_Witness ==
    /\ inflight.track.pc = "done"
    /\ inflight.del.pc = "done"
    /\ inflight.track.product_id = inflight.del.product_id
    /\ inflight.del.status = NoContent
    /\ inflight.track.status = ServerError
    /\ inflight.track.product_id \notin catalog
    /\ \A i \in DOMAIN ledger : ledger[i].product_id # inflight.track.product_id

\* C19: weighted_personalized_for scores a product by the sum, over the
\* actor's events for it of the last 30 days, of purchase 5.0, add_to_cart
\* 3.0, wishlist 2.0, click 1.5, view 1.0 (below in halves), and derives the
\* categories and the price band from the 5 products of highest score, or
\* from all of them when they are fewer: the list it returns is the one
\* derived from such a set of products.
C19_Events == {i \in DOMAIN ledger :
                  /\ now - ledger[i].created_at <= 30
                  /\ IF call.user_id # 0 THEN ledger[i].user_id = call.user_id
                     ELSE ledger[i].session_id = call.session_id}

C19_Times(p, kind) ==
    Cardinality({i \in C19_Events :
        ledger[i].product_id = p /\ ledger[i].interaction_type = kind})

C19_Score(p) ==
    10 * C19_Times(p, "purchase") + 6 * C19_Times(p, "add_to_cart")
        + 4 * C19_Times(p, "wishlist") + 3 * C19_Times(p, "click") + 2 * C19_Times(p, "view")

C19_Scored == {ledger[i].product_id : i \in C19_Events}

C19_TopSets ==
    {T \in SUBSET C19_Scored :
        /\ Cardinality(T) = Min(5, Cardinality(C19_Scored))
        /\ \A p \in T, q \in C19_Scored \ T : C19_Score(p) >= C19_Score(q)}

C19_WeightedTopFive ==
    (/\ call.op = "weighted_personalized_for"
     /\ call.user_id # 0 \/ call.session_id # ""
     /\ C19_Events # {})
        => \E T \in C19_TopSets, ord \in RowOrders :
              call.result = RecommendFromTop(T, C19_Scored, call.n, ord)

\* C19 witness: user 1 has six scored products, F (kids) with the lowest
\* score; no kids' product is recommended although G is the best rated
C19_Witness ==
    /\ call.op = "weighted_personalized_for"
    /\ call.user_id = 1
    /\ Cardinality(C19_Scored) = 6
    /\ \A p \in C19_Scored \ {"F"} : C19_Score(p) > C19_Score("F")
    /\ "G" \in catalog
    /\ call.result = <<"K", "J", "I">>

\* C20: for an actor with events in the window, every product that
\* weighted_personalized_for returns has a category of the actor's top-5
\* products and no event of the actor in the window; the products inside the
\* price band come first, best rated first; a product outside the band comes
\* only after them and only when fewer than n products are inside the band.
C20_InBand(p, T) ==
    /\ 10 * Product[p].price >= 7 * MinOf({Product[t].price : t \in T})
    /\ 10 * Product[p].price <= 13 * MaxOf({Product[t].price : t \in T})

C20_Eligible(T) ==
    {p \in catalog \ C19_Scored : \E t \in T : Product[p].category = Product[t].category}

C20_AsDerivedFrom(T) ==
    /\ Range(call.result) \subseteq C20_Eligible(T)
    /\ \A i, j \in DOMAIN call.result :
          i < j =>
             /\ C20_InBand(call.result[j], T) => C20_InBand(call.result[i], T)
             /\ C20_InBand(call.result[j], T) =>
                   Product[call.result[i]].rating >= Product[call.result[j]].rating
    /\ \A p \in C20_Eligible(T) \ Range(call.result), r \in Range(call.result) :
          (C20_InBand(p, T) /\ C20_InBand(r, T)) => Product[r].rating >= Product[p].rating
    /\ (\E r \in Range(call.result) : ~C20_InBand(r, T))
          => Cardinality({p \in C20_Eligible(T) : C20_InBand(p, T)}) < call.n

C20_WeightedResult ==
    (/\ call.op = "weighted_personalized_for"
     /\ call.user_id # 0 \/ call.session_id # ""
     /\ C19_Events # {})
        => \E T \in C19_TopSets : C20_AsDerivedFrom(T)

\* C20 witness: H and I are rated above K and J but priced outside the band;
\* I comes third, after the two products inside the band, and H not at all
C20_Witness ==
    /\ call.op = "weighted_personalized_for"
    /\ call.user_id = 1
    /\ call.n = 3
    /\ {"H", "I", "J", "K"} \subseteq catalog
    /\ Len(ledger) >= 6
    /\ call.result = <<"K", "J", "I">>

\* C21: when the subject's category and sub-category match an entry of the
\* complementary map, every product complete_the_look returns has the
\* subject's category and a sub-category listed for that entry, also when
\* the listed sub-categories hold fewer than n products.
C21_Subs ==
    ComplementarySubs(Lower(Product[call.product_id].category),
                      Replace(Replace(Lower(Product[call.product_id].sub_category), " ", "-"),
                              "_", "-"))

C21_OnlyListedSubCategories ==
    (call.op \in CompleteOps /\ call.status = 200 /\ call.product_id \in catalog
        /\ C21_Subs # <<>>)
        => \A p \in Range(call.result) :
              /\ Product[p].category = Product[call.product_id].category
              /\ \E k \in DOMAIN C21_Subs :
                    Contains(Lower(Product[p].sub_category), C21_Subs[k])

\* C23: with fewer than 2 products in the catalog, personalized_for an actor
\* with history returns what trending(n) returns, and similar_to_product does
\* not answer with the empty list while trending(n) is not empty.
C23_SmallCatalogFallsBack ==
    Cardinality(catalog) < 2
        => /\ (call.op = "personalized_for" /\ ~C4_NoHistory)
                 => call.result \in TrendingLists(call.n)
           /\ (call.op = "similar_to_product" /\ <<>> \notin TrendingLists(call.n))
                 => call.result # <<>>

\* C28: recently_viewed(actor, n) never returns more than n products, for
\* every n >= 0; n = 0 gives the empty list.
C28_RecentlyViewedAtMostN ==
    call.op = "recently_viewed_for" => Len(call.result) <= call.n

\* C29: the list complete_the_look returns never holds the same product
\* twice, also when a product's sub-category text matches more than one of
\* the listed complementary sub-categories.
C29_CompleteLookNoDuplicates ==
    (call.op \in CompleteOps /\ call.status = 200) => NoDuplicates(call.result)

\* C24: in every reachable state every event of the ledger has a kind among
\* view, click, add_to_cart, wishlist and purchase; a POST /track with any
\* other kind is answered 400 and leaves the ledger as it was.
C24_KindsValid == \A i \in DOMAIN ledger : ledger[i].interaction_type \in valid_types

C24_Rejected ==
    (call.op = "idle" /\ call'.op = "POST /track" /\ call'.kind \notin valid_types)
       => (call'.status = BadRequest /\ ledger' = ledger)

C24_OnlyValidKinds == []C24_KindsValid /\ [][C24_Rejected]_vars

\* C24 witness: a track of kind 'share' for a product of the catalog has just
\* been refused, after an event of a valid kind was stored
C24_Witness ==
    /\ call.op = "POST /track"
    /\ call.kind = "share"
    /\ call.product_id \in catalog
    /\ call.status = BadRequest
    /\ ledger # <<>>
    /\ C24_KindsValid

\* C30: once an actor's 'view' of product P is tracked, and as long as the
\* same actor views nothing else and P is not deleted, recently_viewed for
\* that actor with n >= 1 returns a list that starts with P: the product of
\* the actor's last view in the ledger comes first.
C30_Views ==
    {i \in DOMAIN ledger :
        /\ ledger[i].interaction_type = "view"
        /\ IF call.user_id # 0 THEN ledger[i].user_id = call.user_id
           ELSE ledger[i].session_id = call.session_id}

C30_LastViewedFirst ==
    (call.op = "recently_viewed_for" /\ call.n >= 1 /\ C30_Views # {})
        => /\ call.result # <<>>
           /\ call.result[1] = ledger[MaxOf(C30_Views)].product_id

\* C25: without sklearn, for a product P of the catalog that has another
\* product of its category, similar_to_product(P.id, n) returns the first n
\* of the other products of P's category, ordered by the absolute difference
\* of their price to P's, smallest first, products of equal difference in the
\* order of the catalog rows.
C25_SameCategory ==
    {p \in catalog : p # call.product_id
                     /\ Product[p].category = Product[call.product_id].category}

C25_Gap(p) == AbsDiff(Product[p].price, Product[call.product_id].price)

C25_Expected(ord) ==
    Take(SortedBy(C25_SameCategory, LAMBDA a, b :
            \/ C25_Gap(a) < C25_Gap(b)
            \/ C25_Gap(a) = C25_Gap(b) /\ Pos(ord, a) < Pos(ord, b)),
         call.n)

C22_UnmappedSubject ==
    (call.op \in CompleteOps /\ call.status = 200 /\ call.product_id \in catalog
        /\ C21_Subs = <<>>)
        => /\ Len(call.result) <= call.n
           /\ \A p \in Range(call.result) :
                 /\ p \in catalog
                 /\ Product[p].category = Product[call.product_id].category
                 /\ Product[p].sub_category # Product[call.product_id].sub_category
           /\ \A i, j \in DOMAIN call.result :
                 i < j => Product[call.result[i]].rating >= Product[call.result[j]].rating

\* C22 witness: C (men, 'shirt') matches no key of the men's map; of the other
\* men's products M has C's sub-category, and E and I are the best rated two
C22_Witness ==
    /\ call.op = "complete_the_look"
    /\ call.product_id = "C"
    /\ {"C", "E", "I", "K", "M"} \subseteq catalog
    /\ call.n = 2
    /\ call.result = <<"E", "I">>

\* C26: with sklearn, similar_to_product(P.id, n) returns products other
\* than P in ascending order of the Euclidean distance of their normalized
\* feature vectors to P's, products at the same distance in the order of the
\* catalog rows.
C26_Distance(p) ==
    Distance(FeatureMatrix, [j \in 1..NumFeatures |-> ColumnSpread(FeatureMatrix, j)],
             p, {call.product_id})

C26_NearestFirstTiesInRowOrder ==
    (call.op \in SimilarOps /\ call.status = 200 /\ sklearn
        /\ call.product_id \in catalog /\ Cardinality(catalog) >= 2)
        => /\ call.product_id \notin Range(call.result)
           /\ \A i, j \in DOMAIN call.result :
                 i < j => \/ C26_Distance(call.result[i]) < C26_Distance(call.result[j])
                          \/ /\ C26_Distance(call.result[i]) = C26_Distance(call.result[j])
                             /\ Pos(call.rows, call.result[i]) < Pos(call.rows, call.result[j])

\* C27: with sklearn, for a product P of a catalog of at least 2 products and
\* n >= 1, similar_to_product(P.id, n) returns exactly min(n, catalog size - 1)
\* products of the catalog, none twice, also when the n + 1 nearest
\* neighbours do not include P.
C27_ExactlyMinNOthers ==
    (call.op \in SimilarOps /\ call.status = 200 /\ sklearn
        /\ call.product_id \in catalog /\ Cardinality(catalog) >= 2 /\ call.n >= 1)
        => /\ Len(call.result) = Min(call.n, Cardinality(catalog) - 1)
           /\ NoDuplicates(call.result)
           /\ Range(call.result) \subseteq catalog

\* C27 witness: B, D and L have B's feature vector; the two nearest
\* neighbours of B are L and D, not B, and L is returned for n = 1
C27_Witness ==
    /\ call.op = "similar_to_product"
    /\ sklearn
    /\ hashOf = "collide"
    /\ {"A", "B", "D", "L"} \subseteq catalog
    /\ call.product_id = "B"
    /\ call.n = 1
    /\ call.result = <<"L">>

====
